---- MODULE Spec2Model ----
(***************************************************************************)
(* University timetable generator: the scheduling engine of                *)
(* app/timetable_generator.py (TimetableGenerator) and the request layer   *)
(* of app/routers/timetable.py that starts it and keeps the job records.   *)
(*                                                                         *)
(* Times of day are records [hour, minute] (datetime.time); the strings    *)
(* "HH:MM" of DEFAULT_TEACHING_HOURS are the pairs <<HH, MM>> that         *)
(* str.split(':') yields.  One semester is modelled: every query of the    *)
(* generator filters on its own semester_id.  The request carries no       *)
(* department_ids / programme_ids filter.                                  *)
(*                                                                         *)
(* datetime.time(...) in timetable_generator.py is reached through         *)
(* `from datetime import datetime` (line 4), where the name is the method  *)
(* datetime.datetime.time, so under CPython the calls of lines 37 and 47   *)
(* raise TypeError.  The model keeps both readings of the name, drawn by   *)
(* Init into datetime_time: "method", the name as imported, under which    *)
(* every slot search ends in that TypeError (TrySlotRaises), and "class",  *)
(* the time-of-day constructor the annotations and the arithmetic of the   *)
(* module are written for, under which the search is computed (TrySlot).   *)
(***************************************************************************)
EXTENDS Integers, Sequences, FiniteSets, TLC

----------------------------------------------------------------------------
(* Bounds of the model *)

\* generation requests per behaviour
MaxRuns == 2
\* the day shuffles explored: rotations of the week, DayOrder(0..MaxDayShift)
MaxDayShift == 1
\* the clock (seconds since a run's timer started) stops advancing here
MaxElapsed == 2

\* the manual create requests stop once the table has handed out this many ids
MaxEntryId == 2

----------------------------------------------------------------------------
(* Program constants *)

DEFAULT_LECTURE_DURATION == 60
DEFAULT_LAB_DURATION == 120
\* step_minutes default of get_available_time_slots
STEP_MINUTES == 30
\* defaults substituted by the router for a falsy max_iterations / time_limit
DEFAULT_MAX_ITERATIONS == 1000
DEFAULT_TIME_LIMIT == 300
\* preferences.get(course.id, 3)
DEFAULT_PREFERENCE == 3

Days == << "Monday", "Tuesday", "Wednesday", "Thursday", "Friday", "Saturday", "Sunday" >>

DEFAULT_TEACHING_HOURS ==
    [d \in {Days[k] : k \in 1..7} |->
        CASE d = "Saturday" -> [start |-> <<8, 0>>, end |-> <<13, 0>>]
          [] d = "Sunday"   -> [start |-> <<0, 0>>, end |-> <<0, 0>>]
          [] OTHER          -> [start |-> <<8, 0>>, end |-> <<17, 0>>]]

JobStatusEnum == {"Pending", "Running", "Completed", "Failed"}

OptimizationStrategyEnum == {"balanced", "rooms", "instructors", "students", "minimal_changes"}

\* the kinds a TimetableConstraint row can carry
ConstraintTypeEnum ==
    {"NoRoomConflict", "NoInstructorConflict", "RoomTypeMatch", "InstructorAvailability",
     "InstructorMaxHours", "ConsecutiveCourses", "MinimizeGaps", "PreferredTimeSlots",
     "BalancedDistribution"}

----------------------------------------------------------------------------
(* Time helpers *)

T(h, m) == [hour |-> h, minute |-> m]

parse_time(time_str) == T(time_str[1], time_str[2])

time_to_minutes(t) == t.hour * 60 + t.minute

minutes_to_time(minutes) == T(minutes \div 60, minutes % 60)

\* the order of datetime.time values, as used by max(...) and min(...) on them
TimeLess(a, b) == a.hour < b.hour \/ (a.hour = b.hour /\ a.minute < b.minute)

TimeMax(a, b) == IF TimeLess(a, b) THEN b ELSE a

TimeMin(a, b) == IF TimeLess(b, a) THEN b ELSE a

Max(a, b) == IF a >= b THEN a ELSE b

Min(a, b) == IF a <= b THEN a ELSE b

check_time_overlap(start1, end1, start2, end2) ==
    Max(time_to_minutes(start1), time_to_minutes(start2))
        < Min(time_to_minutes(end1), time_to_minutes(end2))

\* range(day_start_minutes, day_end_minutes - duration_minutes + 1, step_minutes)
SlotStarts(day_start_minutes, stop, step) ==
    IF stop <= day_start_minutes THEN << >>
    ELSE [k \in 1..((stop - day_start_minutes + step - 1) \div step) |->
              day_start_minutes + (k - 1) * step]

\* every candidate start, whatever the existing bookings
get_available_time_slots_NoBookingCheck(day, duration_minutes, existing_slots, day_start, day_end) ==
    LET starts == SlotStarts(time_to_minutes(day_start),
                             time_to_minutes(day_end) - duration_minutes + 1, STEP_MINUTES)
    IN  [k \in 1..Len(starts) |->
            [start_time |-> minutes_to_time(starts[k]),
             end_time   |-> minutes_to_time(starts[k] + duration_minutes)]]

get_available_time_slots(day, duration_minutes, existing_slots, day_start, day_end) ==
    LET starts == SlotStarts(time_to_minutes(day_start),
                             time_to_minutes(day_end) - duration_minutes + 1, STEP_MINUTES)
        existing_minutes ==
            {<<time_to_minutes(e.start_time), time_to_minutes(e.end_time)>> :
                 e \in existing_slots}
        slot_free(start_minutes) ==
            \A e \in existing_minutes :
                ~(Max(start_minutes, e[1]) < Min(start_minutes + duration_minutes, e[2]))
        free == SelectSeq(starts, slot_free)
    IN  [k \in 1..Len(free) |->
            [start_time |-> minutes_to_time(free[k]),
             end_time   |-> minutes_to_time(free[k] + duration_minutes)]]

----------------------------------------------------------------------------
(* The catalogue: the rows of the course, room, instructor,                *)
(* instructor_preference and instructor_availability tables, in id order.  *)
(* expected_students = 0 stands for an unset (None) or zero value: both    *)
(* are falsy in `if course.expected_students`.  The catalogue is fixed     *)
(* during a behaviour; Init draws it from Catalogues.                      *)

VARIABLE catalog

GeneralCatalogue ==
    [courses |->
        << [id |-> 1, type |-> "Theory", expected_students |-> 0],
           [id |-> 2, type |-> "Lab",    expected_students |-> 20] >>,
     rooms |->
        << [id |-> 1, type |-> "Lecture Hall", capacity |-> 30],
           [id |-> 2, type |-> "Lab",          capacity |-> 25],
           [id |-> 3, type |-> "Lecture Hall", capacity |-> 40] >>,
     instructors |->
        << [id |-> 1, max_hours_per_week |-> 2],
           [id |-> 2, max_hours_per_week |-> 1] >>,
     preferences |->
        { [instructor_id |-> 1, course_id |-> 2, preference_level |-> 4] },
     availabilities |->
        << [instructor_id |-> 1, day |-> "Monday", start_time |-> T(8, 0),
            end_time |-> T(10, 0), is_available |-> TRUE],
           [instructor_id |-> 2, day |-> "Monday", start_time |-> T(9, 0),
            end_time |-> T(11, 0), is_available |-> TRUE],
           [instructor_id |-> 2, day |-> "Monday", start_time |-> T(14, 0),
            end_time |-> T(16, 0), is_available |-> TRUE],
           [instructor_id |-> 1, day |-> "Sunday", start_time |-> T(9, 0),
            end_time |-> T(12, 0), is_available |-> TRUE],
           [instructor_id |-> 2, day |-> "Saturday", start_time |-> T(8, 0),
            end_time |-> T(13, 0), is_available |-> FALSE] >>]

\* two Theory courses that compete for the only lecture hall
ContendedCatalogue ==
    [courses |->
        << [id |-> 1, type |-> "Theory", expected_students |-> 0],
           [id |-> 2, type |-> "Theory", expected_students |-> 30] >>,
     rooms |->
        << [id |-> 1, type |-> "Lecture Hall", capacity |-> 40],
           [id |-> 2, type |-> "Lab",          capacity |-> 25] >>,
     instructors |->
        << [id |-> 1, max_hours_per_week |-> 1],
           [id |-> 2, max_hours_per_week |-> 20] >>,
     preferences |->
        { [instructor_id |-> 2, course_id |-> 2, preference_level |-> 5] },
     availabilities |->
        << [instructor_id |-> 1, day |-> "Saturday", start_time |-> T(10, 0),
            end_time |-> T(12, 0), is_available |-> TRUE] >>]

\* two Theory courses, one lecture hall, one instructor with one hour a week
\* whose Saturday window runs past the end of the Saturday teaching hours
SoleInstructorCatalogue ==
    [courses |->
        << [id |-> 1, type |-> "Theory", expected_students |-> 0],
           [id |-> 2, type |-> "Theory", expected_students |-> 0] >>,
     rooms |->
        << [id |-> 1, type |-> "Lecture Hall", capacity |-> 30] >>,
     instructors |->
        << [id |-> 1, max_hours_per_week |-> 1] >>,
     preferences |-> {},
     availabilities |->
        << [instructor_id |-> 1, day |-> "Saturday", start_time |-> T(12, 0),
            end_time |-> T(14, 0), is_available |-> TRUE] >>]

\* one Lab course, one Lab room that holds it, one instructor available on
\* Monday 08:00-17:00 with 20 hours a week
SingleLabCatalogue ==
    [courses |->
        << [id |-> 1, type |-> "Lab", expected_students |-> 20] >>,
     rooms |->
        << [id |-> 1, type |-> "Lab", capacity |-> 25] >>,
     instructors |->
        << [id |-> 1, max_hours_per_week |-> 20] >>,
     preferences |-> {},
     availabilities |->
        << [instructor_id |-> 1, day |-> "Monday", start_time |-> T(8, 0),
            end_time |-> T(17, 0), is_available |-> TRUE] >>]

\* a Lab course in a semester with no Lab room and no instructor
NoLabRoomCatalogue ==
    [courses |->
        << [id |-> 1, type |-> "Lab", expected_students |-> 0] >>,
     rooms |->
        << [id |-> 1, type |-> "Lecture Hall", capacity |-> 30] >>,
     instructors |-> << >>,
     preferences |-> {},
     availabilities |-> << >>]

\* three Theory courses, one lecture hall, one instructor whose two Monday
\* windows are stored with the later one first and whose windows on the other
\* teaching days are too short for a lecture
UnorderedWindowsCatalogue ==
    [courses |->
        << [id |-> 1, type |-> "Theory", expected_students |-> 0],
           [id |-> 2, type |-> "Theory", expected_students |-> 0],
           [id |-> 3, type |-> "Theory", expected_students |-> 0] >>,
     rooms |->
        << [id |-> 1, type |-> "Lecture Hall", capacity |-> 30] >>,
     instructors |->
        << [id |-> 1, max_hours_per_week |-> 20] >>,
     preferences |-> {},
     availabilities |->
        << [instructor_id |-> 1, day |-> "Monday", start_time |-> T(14, 0),
            end_time |-> T(15, 0), is_available |-> TRUE],
           [instructor_id |-> 1, day |-> "Monday", start_time |-> T(9, 0),
            end_time |-> T(10, 0), is_available |-> TRUE] >>
        \o [k \in 1..5 |->
              [instructor_id |-> 1, day |-> Days[k + 1], start_time |-> T(8, 0),
               end_time |-> T(8, 30), is_available |-> TRUE]]]

\* two Theory courses, two lecture halls stored larger first, two instructors
\* with one hour a week each, the second of whom prefers both courses
PreferenceCatalogue ==
    [courses |->
        << [id |-> 1, type |-> "Theory", expected_students |-> 0],
           [id |-> 2, type |-> "Theory", expected_students |-> 0] >>,
     rooms |->
        << [id |-> 1, type |-> "Lecture Hall", capacity |-> 40],
           [id |-> 2, type |-> "Lecture Hall", capacity |-> 30] >>,
     instructors |->
        << [id |-> 1, max_hours_per_week |-> 1],
           [id |-> 2, max_hours_per_week |-> 1] >>,
     preferences |->
        { [instructor_id |-> 2, course_id |-> 1, preference_level |-> 5],
          [instructor_id |-> 2, course_id |-> 2, preference_level |-> 5] },
     availabilities |-> << >>]

Catalogues ==
    { GeneralCatalogue, ContendedCatalogue, SoleInstructorCatalogue, SingleLabCatalogue,
      NoLabRoomCatalogue }

Courses == catalog.courses

Rooms == catalog.rooms

Instructors == catalog.instructors

InstructorPreferences == catalog.preferences

InstructorAvailabilities == catalog.availabilities

CourseIds == {Courses[k].id : k \in 1..Len(Courses)}

CourseById(id) == CHOOSE c \in {Courses[k] : k \in 1..Len(Courses)} : c.id = id

RoomById(id) == CHOOSE x \in {Rooms[k] : k \in 1..Len(Rooms)} : x.id = id

----------------------------------------------------------------------------
(* Sequence helpers *)

RECURSIVE Flatten(_)
Flatten(seqs) == IF seqs = << >> THEN << >> ELSE Head(seqs) \o Flatten(Tail(seqs))

\* insert x before the first element with a strictly larger key: a stable
\* ascending insertion, as ORDER BY key over rows in id order
RECURSIVE InsertAsc(_, _, _)
InsertAsc(x, sorted, key) ==
    IF sorted = << >> THEN << x >>
    ELSE IF key[x.id] < key[Head(sorted).id] THEN << x >> \o sorted
    ELSE << Head(sorted) >> \o InsertAsc(x, Tail(sorted), key)

RECURSIVE SortAsc(_, _)
SortAsc(seq, key) ==
    IF seq = << >> THEN << >>
    ELSE InsertAsc(seq[Len(seq)], SortAsc(SubSeq(seq, 1, Len(seq) - 1), key), key)

\* list.sort(key=..., reverse=True) and sorted(..., reverse=True): descending,
\* elements with equal keys keep their original order
RECURSIVE InsertDesc(_, _, _)
InsertDesc(x, sorted, key) ==
    IF sorted = << >> THEN << x >>
    ELSE IF key[x.id] > key[Head(sorted).id] THEN << x >> \o sorted
    ELSE << Head(sorted) >> \o InsertDesc(x, Tail(sorted), key)

RECURSIVE SortDesc(_, _)
SortDesc(seq, key) ==
    IF seq = << >> THEN << >>
    ELSE InsertDesc(seq[Len(seq)], SortDesc(SubSeq(seq, 1, Len(seq) - 1), key), key)

\* every order random.shuffle can leave a list in
Shuffles(seq) ==
    {p \in [1..Len(seq) -> {seq[k] : k \in 1..Len(seq)}] :
        \A a, b \in 1..Len(seq) : a # b => p[a] # p[b]}

\* the shuffled week with the day of index (5 * shift) mod 7 first
DayOrder(shift) == [k \in 1..7 |-> Days[((5 * shift + k - 1) % 7) + 1]]

DayOrders == {DayOrder(s) : s \in 0..MaxDayShift}

----------------------------------------------------------------------------
(* Reads of the generator.  `led` is the timetable table: a set of rows    *)
(* [id, course_id, instructor_id, room_id, day, start_time, end_time,      *)
(* semester_id, by], where `by` is history, not a column: the run that     *)
(* committed the row, 0 for a row entered by hand.  Every read filters on  *)
(* the semester of the request.                                            *)

\* request.semester_id, the semester of every generation request
semester_id == 1

NoSlot == [day |-> "", start_time |-> T(0, 0), end_time |-> T(0, 0)]

_get_instructor_availability(instructor_id) ==
    [day \in DOMAIN DEFAULT_TEACHING_HOURS |->
        LET Mine(a) == a.instructor_id = instructor_id /\ a.is_available /\ a.day = day
            rows == SelectSeq(InstructorAvailabilities, Mine)
            slots == [k \in 1..Len(rows) |->
                         [start_time |-> rows[k].start_time, end_time |-> rows[k].end_time]]
            day_hours == DEFAULT_TEACHING_HOURS[day]
        IN  IF slots # << >> THEN slots
            ELSE IF day_hours.start # <<0, 0>> \/ day_hours.end # <<0, 0>>
                 THEN << [start_time |-> parse_time(day_hours.start),
                          end_time   |-> parse_time(day_hours.end)] >>
                 ELSE << >>]

_get_instructor_preferences(instructor_id) ==
    {p \in InstructorPreferences : p.instructor_id = instructor_id}

\* rows of the room table of the kind the course needs (all rooms for a course
\* that is neither Theory nor Lab)
RoomsOfKind(course) ==
    LET Kind(r) == CASE course.type = "Theory" -> r.type = "Lecture Hall"
                     [] course.type = "Lab"    -> r.type = "Lab"
                     [] OTHER                  -> TRUE
    IN  SelectSeq(Rooms, Kind)

_get_suitable_rooms_AnyKind(course) ==
    LET Fits(r) == course.expected_students = 0 \/ r.capacity >= course.expected_students
        rows == SelectSeq(Rooms, Fits)
        key == [id \in {Rooms[k].id : k \in 1..Len(Rooms)} |->
                   LET r == CHOOSE x \in {Rooms[k] : k \in 1..Len(Rooms)} : x.id = id
                   IN  IF course.expected_students # 0
                       THEN (IF r.capacity >= course.expected_students
                             THEN r.capacity - course.expected_students
                             ELSE course.expected_students - r.capacity)
                       ELSE r.capacity]
    IN  SortAsc(rows, key)

_get_suitable_rooms(course) ==
    LET Fits(r) == course.expected_students = 0 \/ r.capacity >= course.expected_students
        rows == SelectSeq(RoomsOfKind(course), Fits)
        key == [id \in {Rooms[k].id : k \in 1..Len(Rooms)} |->
                   LET r == CHOOSE x \in {Rooms[k] : k \in 1..Len(Rooms)} : x.id = id
                   IN  IF course.expected_students # 0
                       THEN (IF r.capacity >= course.expected_students
                             THEN r.capacity - course.expected_students
                             ELSE course.expected_students - r.capacity)
                       ELSE r.capacity]
    IN  SortAsc(rows, key)

\* the instructors in table order, whatever their preference scores
_get_suitable_instructors_TableOrder(course) == Instructors

\* the instructors, highest preference score for the course first
_get_suitable_instructors(course) ==
    LET score == [id \in {Instructors[k].id : k \in 1..Len(Instructors)} |->
                     LET prefs == {p \in _get_instructor_preferences(id) :
                                       p.course_id = course.id}
                     IN  IF prefs = {} THEN DEFAULT_PREFERENCE
                         ELSE (CHOOSE p \in prefs : TRUE).preference_level]
    IN  SortDesc(Instructors, score)

_get_room_bookings(led, room_id, day) ==
    {[start_time |-> b.start_time, end_time |-> b.end_time] :
        b \in {x \in led : x.room_id = room_id /\ x.day = day
                            /\ x.semester_id = semester_id}}

_get_instructor_bookings(led, instructor_id, day) ==
    {[start_time |-> b.start_time, end_time |-> b.end_time] :
        b \in {x \in led : x.instructor_id = instructor_id /\ x.day = day
                            /\ x.semester_id = semester_id}}

RECURSIVE SumMinutes(_)
SumMinutes(rows) ==
    IF rows = {} THEN 0
    ELSE LET b == CHOOSE x \in rows : TRUE
         IN  (time_to_minutes(b.end_time) - time_to_minutes(b.start_time))
                 + SumMinutes(rows \ {b})

\* total booked minutes of an instructor in the semester
InstructorMinutes(led, instructor_id) ==
    SumMinutes({x \in led : x.instructor_id = instructor_id /\ x.semester_id = semester_id})

_calculate_instructor_hours(led, instructor_id) ==
    InstructorMinutes(led, instructor_id) \div 60

\* every session lasts as long as a lecture
Duration_LectureOnly(course) == DEFAULT_LECTURE_DURATION

Duration(course) ==
    IF course.type = "Lab" THEN DEFAULT_LAB_DURATION ELSE DEFAULT_LECTURE_DURATION

\* the candidates of each availability window, not clipped to the teaching
\* window of the day
InstructorSlots_Unclipped(led, course, instructor, day) ==
    LET instructor_bookings == _get_instructor_bookings(led, instructor.id, day)
        avail == _get_instructor_availability(instructor.id)[day]
    IN  Flatten([k \in 1..Len(avail) |->
            get_available_time_slots(day, Duration(course), instructor_bookings,
                                     avail[k].start_time, avail[k].end_time)])

\* the slots of the instructor on one day: for each availability window, clipped
\* to the default teaching window, the candidates free of instructor bookings
InstructorSlots(led, course, instructor, day) ==
    LET instructor_bookings == _get_instructor_bookings(led, instructor.id, day)
        day_start == parse_time(DEFAULT_TEACHING_HOURS[day].start)
        day_end == parse_time(DEFAULT_TEACHING_HOURS[day].end)
        avail == _get_instructor_availability(instructor.id)[day]
    IN  Flatten([k \in 1..Len(avail) |->
            get_available_time_slots(day, Duration(course), instructor_bookings,
                                     TimeMax(avail[k].start_time, day_start),
                                     TimeMin(avail[k].end_time, day_end))])

\* the first instructor slot of the day that overlaps no booking of the room
FirstRoomFree_NoRoomCheck(slots, room_bookings) ==
    IF slots = << >> THEN NoSlot
    ELSE [day |-> "found", start_time |-> slots[1].start_time, end_time |-> slots[1].end_time]

FirstRoomFree(slots, room_bookings) ==
    LET Works(s) == \A b \in room_bookings :
                        ~check_time_overlap(s.start_time, s.end_time, b.start_time, b.end_time)
        ok == SelectSeq(slots, Works)
    IN  IF ok = << >> THEN NoSlot
        ELSE [day |-> "found", start_time |-> ok[1].start_time, end_time |-> ok[1].end_time]

\* the search stops after the first day of the order
_find_time_slot_FirstDayOnly(led, course, instructor, room, days) ==
    LET day == Head(days)
        first == FirstRoomFree(InstructorSlots(led, course, instructor, day),
                               _get_room_bookings(led, room.id, day))
    IN  IF days = << >> \/ DEFAULT_TEACHING_HOURS[day].start = <<0, 0>> \/ first = NoSlot
        THEN NoSlot
        ELSE [day |-> day, start_time |-> first.start_time, end_time |-> first.end_time]

RECURSIVE _find_time_slot(_, _, _, _, _)
_find_time_slot(led, course, instructor, room, days) ==
    IF days = << >> THEN NoSlot
    ELSE LET day == Head(days)
         IN  IF DEFAULT_TEACHING_HOURS[day].start = <<0, 0>>
             THEN _find_time_slot(led, course, instructor, room, Tail(days))
             ELSE LET first == FirstRoomFree(InstructorSlots(led, course, instructor, day),
                                             _get_room_bookings(led, room.id, day))
                  IN  IF first # NoSlot
                      THEN [day |-> day, start_time |-> first.start_time,
                            end_time |-> first.end_time]
                      ELSE _find_time_slot(led, course, instructor, room, Tail(days))

\* the violated kinds, in the order the checks are made
_check_constraints(led, course, instructor, room, time_slot) ==
    (IF (course.type = "Lab" /\ room.type # "Lab")
            \/ (course.type = "Theory" /\ room.type = "Lab")
     THEN << "RoomTypeMatch" >> ELSE << >>)
    \o (IF course.expected_students # 0 /\ room.capacity < course.expected_students
        THEN << "RoomCapacity" >> ELSE << >>)
    \o (IF _calculate_instructor_hours(led, instructor.id) + (Duration(course) \div 60)
               > instructor.max_hours_per_week
        THEN << "InstructorMaxHours" >> ELSE << >>)
    \o (IF \E b \in _get_room_bookings(led, room.id, time_slot.day) :
               check_time_overlap(time_slot.start_time, time_slot.end_time,
                                  b.start_time, b.end_time)
        THEN << "NoRoomConflict" >> ELSE << >>)
    \o (IF \E b \in _get_instructor_bookings(led, instructor.id, time_slot.day) :
               check_time_overlap(time_slot.start_time, time_slot.end_time,
                                  b.start_time, b.end_time)
        THEN << "NoInstructorConflict" >> ELSE << >>)

\* self.constraints: constraint_type -> is_hard, for the registered kinds
IsHard(registered, kind) ==
    kind \in DOMAIN registered /\ registered[kind]

\* the first violated kind that is registered as hard, "" when there is none
FirstHard(registered, kinds) ==
    LET hard == SelectSeq(kinds, LAMBDA k : IsHard(registered, k))
    IN  IF hard = << >> THEN "" ELSE hard[1]

----------------------------------------------------------------------------
(* Inputs: the request body, the timetable_constraint table and the        *)
(* timetable rows present before the first request.                        *)

\* TimetableGenerationRequest; 0 stands for an omitted (None) or zero budget
Requests ==
    [strategy : OptimizationStrategyEnum,
     respect_existing : BOOLEAN,
     clear_existing : BOOLEAN,
     max_iterations : {0, 1},
     time_limit_seconds : {0, 1}]

\* contents of the timetable_constraint table, as constraint_type -> is_hard_constraint
Registries ==
    { << >>,
      [k \in {"NoRoomConflict", "NoInstructorConflict", "RoomTypeMatch",
              "InstructorMaxHours"} |-> TRUE],
      [k \in {"InstructorMaxHours"} |-> FALSE] }

InitialLedgers ==
    { {},
      { [id |-> 1, course_id |-> 1, instructor_id |-> 1, room_id |-> 1, day |-> "Monday",
         start_time |-> T(8, 0), end_time |-> T(9, 0), semester_id |-> semester_id,
         by |-> 0] } }

Runs == 1..MaxRuns

----------------------------------------------------------------------------
(* State *)

VARIABLES
    datetime_time,    \* what the name datetime.time denotes: "class" or "method"
    ledger,           \* timetable rows of the semester
    nextEntryId,      \* next primary key of the timetable table
    jobs,             \* timetable_generation_job rows, by id
    constraints_db,   \* timetable_constraint table
    request,          \* the request body the clients of this behaviour submit
    pc,               \* per request: where its background run stands
    returned_job_id,  \* per request: the job_id the POST returned
    job,              \* per run: self.job (row id)
    constraints,      \* per run: self.constraints
    entries_created,  \* per run: self.entries_created
    conflicts,        \* per run: self.conflicts
    courses,          \* per run: the ordered course list of _optimize_timetable
    idx,              \* per run: position in courses of the course being processed
    iteration,        \* per run: iteration
    ipos,             \* per run: position in instructors_with_scores
    rpos,             \* per run: position in rooms
    time_slot,        \* per run: the slot _find_time_slot returned
    violated,         \* per run: violated_constraints of the last check
    start_ledger,     \* history: the ledger when the run was constructed
    cut               \* history: the course loop ended on the budget check

\* what no step changes
world == << catalog, datetime_time, constraints_db, request >>

vars == << world, ledger, nextEntryId, jobs, pc, returned_job_id, job,
           constraints, entries_created, conflicts, courses, idx, iteration, ipos,
           rpos, time_slot, violated, start_ledger, cut >>

\* the values the router hands to generate_timetable
max_iterations == IF request.max_iterations # 0 THEN request.max_iterations
                  ELSE DEFAULT_MAX_ITERATIONS

time_limit_seconds == IF request.time_limit_seconds # 0 THEN request.time_limit_seconds
                      ELSE DEFAULT_TIME_LIMIT

\* the state after construction, for a catalogue drawn from `catalogues` and a
\* table drawn from `ledgers`
InitFrom(catalogues, ledgers) ==
    /\ catalog \in catalogues
    /\ datetime_time \in {"class", "method"}
    /\ ledger \in ledgers
    /\ \A b \in ledger :
           /\ b.course_id \in CourseIds
           /\ b.instructor_id \in {Instructors[k].id : k \in 1..Len(Instructors)}
           /\ b.room_id \in {Rooms[k].id : k \in 1..Len(Rooms)}
    /\ nextEntryId = Cardinality(ledger) + 1
    /\ jobs = << >>
    /\ constraints_db \in Registries
    /\ request \in Requests
    /\ pc = [r \in Runs |-> "idle"]
    /\ returned_job_id = [r \in Runs |-> 0]
    /\ job = [r \in Runs |-> 0]
    /\ constraints = [r \in Runs |-> << >>]
    /\ entries_created = [r \in Runs |-> 0]
    /\ conflicts = [r \in Runs |-> << >>]
    /\ courses = [r \in Runs |-> << >>]
    /\ idx = [r \in Runs |-> 0]
    /\ iteration = [r \in Runs |-> 0]
    /\ ipos = [r \in Runs |-> 0]
    /\ rpos = [r \in Runs |-> 0]
    /\ time_slot = [r \in Runs |-> NoSlot]
    /\ violated = [r \in Runs |-> << >>]
    /\ start_ledger = [r \in Runs |-> {}]
    /\ cut = [r \in Runs |-> FALSE]

\* the state after construction, for a catalogue drawn from `catalogues`
InitIn(catalogues) == InitFrom(catalogues, InitialLedgers)

Init == InitIn(Catalogues)

----------------------------------------------------------------------------
(* The request layer *)

NewJob(status) == [status |-> status, error_message |-> "", result_metrics |-> << >>]

\* POST /timetable/generate: a job row in Pending, its id returned, the
\* background task queued
generate_timetable_request(r) ==
    /\ pc[r] = "idle"
    /\ \A q \in Runs : q < r => pc[q] # "idle"
    /\ jobs' = Append(jobs, NewJob("Pending"))
    /\ returned_job_id' = [returned_job_id EXCEPT ![r] = Len(jobs) + 1]
    /\ pc' = [pc EXCEPT ![r] = "queued"]
    /\ UNCHANGED << world, ledger, nextEntryId, job, constraints, entries_created,
                    conflicts, courses, idx, iteration, ipos, rpos, time_slot, violated,
                    start_ledger, cut >>

----------------------------------------------------------------------------
(* The generator *)

_create_job == NewJob("Running")

\* TimetableGenerator.__init__, called by the background task
Construct(r) ==
    /\ pc[r] = "queued"
    /\ constraints' = [constraints EXCEPT ![r] = constraints_db]
    /\ entries_created' = [entries_created EXCEPT ![r] = 0]
    /\ conflicts' = [conflicts EXCEPT ![r] = << >>]
    /\ jobs' = Append(jobs, _create_job)
    /\ job' = [job EXCEPT ![r] = Len(jobs) + 1]
    /\ start_ledger' = [start_ledger EXCEPT ![r] = ledger]
    /\ pc' = [pc EXCEPT ![r] = "optimize"]
    /\ UNCHANGED << world, ledger, nextEntryId, returned_job_id, courses, idx, iteration,
                    ipos, rpos, time_slot, violated, cut >>

Active(q) == pc[q] \notin {"idle", "queued", "done", "failed"}

\* a background task that starts while no other run is under way
StartRunAlone(r) ==
    /\ \A q \in Runs \ {r} : ~Active(q)
    /\ Construct(r)

\* a background task that starts whatever the other runs are doing
StartRun(r) == Construct(r)

Over(q) == pc[q] \in {"done", "failed"}

\* a request submitted once the runs of the earlier requests are over; the
\* request body is submitted again only to repeat a generation that respects
\* and keeps the existing entries
SubmitAlone(r) ==
    /\ \A q \in Runs : q < r => Over(q)
    /\ r > 1 => (request.respect_existing /\ ~request.clear_existing)
    /\ generate_timetable_request(r)

\* a request submitted whatever the runs of the earlier requests are doing
Submit(r) == generate_timetable_request(r)

\* self.db.query(Timetable).filter(semester).delete()
ClearExisting_KeepRows(led) == led

\* the delete without the semester filter
ClearExisting_AllSemesters(led) == {}

ClearExisting(led) == {b \in led : b.semester_id # semester_id}

\* every strategy keeps the order of the table
CourseOrders_InputOrder(strategy) == {Courses}

\* the order in which the strategy leaves the course list
CourseOrders(strategy) ==
    CASE strategy = "rooms" ->
            {SortDesc(Courses, [id \in CourseIds |->
                                   IF CourseById(id).type = "Lab" THEN 1 ELSE 0])}
      [] strategy = "instructors" -> {Courses}
      [] strategy = "students" ->
            {SortDesc(Courses, [id \in CourseIds |-> CourseById(id).expected_students])}
      [] OTHER -> Shuffles(Courses)

\* the locals of a run that is over
Rest(r) ==
    /\ courses' = [courses EXCEPT ![r] = << >>]
    /\ idx' = [idx EXCEPT ![r] = 0]
    /\ iteration' = [iteration EXCEPT ![r] = 0]
    /\ ipos' = [ipos EXCEPT ![r] = 0]
    /\ rpos' = [rpos EXCEPT ![r] = 0]
    /\ time_slot' = [time_slot EXCEPT ![r] = NoSlot]
    /\ violated' = [violated EXCEPT ![r] = << >>]

\* the except branch without the captured message
Fail_NoMessage(r, message) ==
    /\ jobs' = [jobs EXCEPT ![job[r]].status = "Failed"]
    /\ pc' = [pc EXCEPT ![r] = "failed"]
    /\ Rest(r)

\* the except branch of generate: the job row is marked Failed and the error is
\* raised to the caller
Fail(r, message) ==
    /\ jobs' = [jobs EXCEPT ![job[r]].status = "Failed", ![job[r]].error_message = message]
    /\ pc' = [pc EXCEPT ![r] = "failed"]
    /\ Rest(r)

\* _optimize_timetable up to the course loop
OptimizeStart(r) ==
    /\ pc[r] = "optimize"
    /\ ledger' = IF request.clear_existing THEN ClearExisting(ledger) ELSE ledger
    /\ \E order \in CourseOrders(request.strategy) :
           courses' = [courses EXCEPT ![r] = order]
    /\ idx' = [idx EXCEPT ![r] = 1]
    /\ iteration' = [iteration EXCEPT ![r] = 0]
    /\ pc' = [pc EXCEPT ![r] = "loop"]
    /\ UNCHANGED << world, nextEntryId, jobs, returned_job_id, job, constraints,
                    entries_created, conflicts, ipos, rpos, time_slot, violated,
                    start_ledger, cut >>

CurCourse(r) == courses[r][idx[r]]

CurRooms(r) == _get_suitable_rooms(CurCourse(r))

CurInstructors(r) == _get_suitable_instructors(CurCourse(r))

Conflict(kind, course, slot) ==
    [conflict_type |-> kind, entity_type |-> "Course", entity_id |-> course.id,
     time_slot |-> slot]

\* the budget test without the iteration cap
BudgetExceeded_TimeOnly(r, now) == now > time_limit_seconds

\* the budget test made before each course
BudgetExceeded(r, now) == now > time_limit_seconds \/ iteration[r] >= max_iterations

\* the for loop has no course left
CourseLoopEnd(r) ==
    /\ pc[r] = "loop"
    /\ idx[r] > Len(courses[r])
    /\ pc' = [pc EXCEPT ![r] = "stats"]
    /\ UNCHANGED << world, ledger, nextEntryId, jobs, returned_job_id, job, constraints,
                    entries_created, conflicts, courses, idx, iteration, ipos, rpos,
                    time_slot, violated, start_ledger, cut >>

\* the time limit or the iteration cap is reached: break
BudgetBreak(r) ==
    /\ pc[r] = "loop"
    /\ idx[r] <= Len(courses[r])
    /\ \E now \in 0..MaxElapsed : BudgetExceeded(r, now)
    /\ cut' = [cut EXCEPT ![r] = TRUE]
    /\ pc' = [pc EXCEPT ![r] = "stats"]
    /\ UNCHANGED << world, ledger, nextEntryId, jobs, returned_job_id, job, constraints,
                    entries_created, conflicts, courses, idx, iteration, ipos, rpos,
                    time_slot, violated, start_ledger >>

HasEntry(led, course) ==
    \E b \in led : b.course_id = course.id /\ b.semester_id = semester_id

\* the test without the two flags
SkipTaken_IgnoreFlags(r) == HasEntry(ledger, CurCourse(r))

\* the test with its `not` dropped
SkipTaken_NoNegation(r) ==
    /\ request.respect_existing
    /\ request.clear_existing
    /\ HasEntry(ledger, CurCourse(r))

\* `if self.respect_existing and not self.clear_existing` and an entry exists
SkipTaken(r) ==
    /\ request.respect_existing
    /\ ~request.clear_existing
    /\ HasEntry(ledger, CurCourse(r))

\* a `continue` that stays on the same course
SkipExisting_NoAdvance(r) ==
    /\ pc[r] = "loop"
    /\ idx[r] <= Len(courses[r])
    /\ \E now \in 0..MaxElapsed : ~BudgetExceeded(r, now)
    /\ SkipTaken(r)
    /\ UNCHANGED vars

\* the course already has an entry and existing entries are respected: continue
SkipExisting(r) ==
    /\ pc[r] = "loop"
    /\ idx[r] <= Len(courses[r])
    /\ \E now \in 0..MaxElapsed : ~BudgetExceeded(r, now)
    /\ SkipTaken(r)
    /\ iteration' = [iteration EXCEPT ![r] = @ + 1]
    /\ idx' = [idx EXCEPT ![r] = @ + 1]
    /\ UNCHANGED << world, ledger, nextEntryId, jobs, pc, returned_job_id, job, constraints,
                    entries_created, conflicts, courses, ipos, rpos, time_slot, violated,
                    start_ledger, cut >>

\* the course is taken up: its rooms and instructors are fetched.  With no room
\* or no instructor the conflict record is built with TimeSlot(day=""), which
\* the TimeSlot schema (day: DayEnum) rejects: the run ends in the except branch.
BeginCourse(r) ==
    /\ pc[r] = "loop"
    /\ idx[r] <= Len(courses[r])
    /\ ~SkipTaken(r)
    /\ \E now \in 0..MaxElapsed :
           /\ ~BudgetExceeded(r, now)
           /\ IF CurRooms(r) = << >> \/ CurInstructors(r) = << >>
              THEN Fail(r, "conflict record rejected")
              ELSE /\ iteration' = [iteration EXCEPT ![r] = @ + 1]
                   /\ ipos' = [ipos EXCEPT ![r] = 1]
                   /\ rpos' = [rpos EXCEPT ![r] = 1]
                   /\ pc' = [pc EXCEPT ![r] = "pair"]
                   /\ UNCHANGED << jobs, courses, idx, time_slot, violated >>
    /\ UNCHANGED << world, ledger, nextEntryId, returned_job_id, job, constraints,
                    entries_created, conflicts, start_ledger, cut >>

\* the search of a course ends with the first pair that gave no entry
NextPair_GiveUp(r) == Fail(r, "conflict record rejected")

\* after a pair that gave no entry: the next room, else the next instructor,
\* else the course stays unscheduled and its NoSuitableTimeSlot record is built
\* with TimeSlot(day=""), which the schema rejects: the run ends in the except
\* branch
NextPair(r) ==
    IF rpos[r] < Len(CurRooms(r))
    THEN /\ rpos' = [rpos EXCEPT ![r] = @ + 1]
         /\ pc' = [pc EXCEPT ![r] = "pair"]
         /\ time_slot' = [time_slot EXCEPT ![r] = NoSlot]
         /\ violated' = [violated EXCEPT ![r] = << >>]
         /\ UNCHANGED << jobs, courses, idx, iteration, ipos >>
    ELSE IF ipos[r] < Len(CurInstructors(r))
    THEN /\ ipos' = [ipos EXCEPT ![r] = @ + 1]
         /\ rpos' = [rpos EXCEPT ![r] = 1]
         /\ pc' = [pc EXCEPT ![r] = "pair"]
         /\ time_slot' = [time_slot EXCEPT ![r] = NoSlot]
         /\ violated' = [violated EXCEPT ![r] = << >>]
         /\ UNCHANGED << jobs, courses, idx, iteration >>
    ELSE Fail(r, "conflict record rejected")

\* _find_time_slot for the current (instructor, room) pair, under one day shuffle
TrySlot(r) ==
    /\ pc[r] = "pair"
    /\ datetime_time = "class"
    /\ \E days \in DayOrders :
           LET found == _find_time_slot(ledger, CurCourse(r), CurInstructors(r)[ipos[r]],
                                        CurRooms(r)[rpos[r]], days)
           IN  IF found # NoSlot
               THEN /\ time_slot' = [time_slot EXCEPT ![r] = found]
                    /\ pc' = [pc EXCEPT ![r] = "check"]
                    /\ UNCHANGED << jobs, courses, idx, iteration, ipos, rpos,
                                    violated >>
               ELSE NextPair(r)
    /\ UNCHANGED << world, ledger, nextEntryId, returned_job_id, job, constraints,
                    entries_created, conflicts, start_ledger, cut >>

\* _find_time_slot ends in the TypeError of parse_time / minutes_to_time
TrySlotRaises(r) ==
    /\ pc[r] = "pair"
    /\ datetime_time = "method"
    /\ Fail(r, "TypeError")
    /\ UNCHANGED << world, ledger, nextEntryId, returned_job_id, job, constraints,
                    entries_created, conflicts, start_ledger, cut >>

\* _create_timetable_entry up to its decision: the constraints are checked and a
\* violated kind registered as hard is recorded as a conflict (return None)
CheckConstraints(r) ==
    /\ pc[r] = "check"
    /\ LET found == _check_constraints(ledger, CurCourse(r), CurInstructors(r)[ipos[r]],
                                       CurRooms(r)[rpos[r]], time_slot[r])
           hard == FirstHard(constraints[r], found)
       IN  IF hard # ""
           THEN /\ conflicts' = [conflicts EXCEPT ![r] =
                                    Append(@, Conflict(hard, CurCourse(r), time_slot[r]))]
                /\ NextPair(r)
           ELSE /\ violated' = [violated EXCEPT ![r] = found]
                /\ pc' = [pc EXCEPT ![r] = "commit"]
                /\ UNCHANGED << jobs, conflicts, courses, idx, iteration, ipos,
                                rpos, time_slot >>
    /\ UNCHANGED << world, ledger, nextEntryId, returned_job_id, job, constraints,
                    entries_created, start_ledger, cut >>

\* the row is added and committed but not counted
CommitEntry_NoCount(r) ==
    /\ pc[r] = "commit"
    /\ ledger' = ledger \cup
           { [id |-> nextEntryId, course_id |-> CurCourse(r).id,
              instructor_id |-> CurInstructors(r)[ipos[r]].id,
              room_id |-> CurRooms(r)[rpos[r]].id, day |-> time_slot[r].day,
              start_time |-> time_slot[r].start_time, end_time |-> time_slot[r].end_time,
              semester_id |-> semester_id, by |-> r] }
    /\ nextEntryId' = nextEntryId + 1
    /\ idx' = [idx EXCEPT ![r] = @ + 1]
    /\ ipos' = [ipos EXCEPT ![r] = 0]
    /\ rpos' = [rpos EXCEPT ![r] = 0]
    /\ time_slot' = [time_slot EXCEPT ![r] = NoSlot]
    /\ violated' = [violated EXCEPT ![r] = << >>]
    /\ pc' = [pc EXCEPT ![r] = "loop"]
    /\ UNCHANGED << world, jobs, returned_job_id, job, constraints, entries_created,
                    conflicts, courses, iteration, start_ledger, cut >>

\* the rest of _create_timetable_entry: the row is added and committed; the
\* course is scheduled and the loop moves to the next course
CommitEntry(r) ==
    /\ pc[r] = "commit"
    /\ ledger' = ledger \cup
           { [id |-> nextEntryId, course_id |-> CurCourse(r).id,
              instructor_id |-> CurInstructors(r)[ipos[r]].id,
              room_id |-> CurRooms(r)[rpos[r]].id, day |-> time_slot[r].day,
              start_time |-> time_slot[r].start_time, end_time |-> time_slot[r].end_time,
              semester_id |-> semester_id, by |-> r] }
    /\ nextEntryId' = nextEntryId + 1
    /\ entries_created' = [entries_created EXCEPT ![r] = @ + 1]
    /\ idx' = [idx EXCEPT ![r] = @ + 1]
    /\ ipos' = [ipos EXCEPT ![r] = 0]
    /\ rpos' = [rpos EXCEPT ![r] = 0]
    /\ time_slot' = [time_slot EXCEPT ![r] = NoSlot]
    /\ violated' = [violated EXCEPT ![r] = << >>]
    /\ pc' = [pc EXCEPT ![r] = "loop"]
    /\ UNCHANGED << world, jobs, returned_job_id, job, constraints, conflicts, courses,
                    iteration, start_ledger, cut >>

_calculate_statistics(led) ==
    LET entries == {b \in led : b.semester_id = semester_id}
    IN  [total_courses |-> Len(Courses),
         total_instructors |-> Cardinality({b.instructor_id : b \in entries}),
         total_rooms |-> Cardinality({b.room_id : b \in entries}),
         total_hours_scheduled |-> SumMinutes(entries) \div 60]

\* generate after _optimize_timetable returned: the job row is completed
Finish(r) ==
    /\ pc[r] = "stats"
    /\ jobs' = [jobs EXCEPT ![job[r]].status = "Completed",
                            ![job[r]].result_metrics =
                                [entries_created |-> entries_created[r],
                                 conflicts |-> Len(conflicts[r]),
                                 statistics |-> _calculate_statistics(ledger)]]
    /\ pc' = [pc EXCEPT ![r] = "done"]
    /\ Rest(r)
    /\ UNCHANGED << world, ledger, nextEntryId, returned_job_id, job, constraints,
                    entries_created, conflicts, start_ledger, cut >>

\* GET /timetable/generate/{job_id}: the response built from the job row, or
\* the error the handler raises.  generate stores `len(self.conflicts)`, a
\* number, under "conflicts"; the handler hands that value to
\* TimetableGenerationResult.conflicts_detected, a List[ConflictInfo], which
\* rejects a number.  The response has no field for error_message.
get_timetable_generation_status(job_id) ==
    IF job_id \notin 1..Len(jobs) THEN [raised |-> "HTTPException 404"]
    ELSE LET j == jobs[job_id]
             has_metrics == DOMAIN j.result_metrics # {}
             conflicts_is_list == ~has_metrics
         IN  IF ~conflicts_is_list THEN [raised |-> "ValidationError"]
             ELSE [job_id |-> job_id,
                   status |-> j.status,
                   entries_created |-> 0,
                   conflicts_detected |-> << >>,
                   statistics |-> << >>]

Step(r) ==
    \/ OptimizeStart(r)
    \/ CourseLoopEnd(r)
    \/ BudgetBreak(r)
    \/ SkipExisting(r)
    \/ BeginCourse(r)
    \/ TrySlot(r)
    \/ TrySlotRaises(r)
    \/ CheckConstraints(r)
    \/ CommitEntry(r)
    \/ Finish(r)

\* one run at a time
Next == \E r \in Runs : SubmitAlone(r) \/ StartRunAlone(r) \/ Step(r)

Spec == Init /\ [][Next]_vars

\* one run at a time on the catalogue with unordered availability windows
InitWindows == InitIn({UnorderedWindowsCatalogue})

SpecWindows == InitWindows /\ [][Next]_vars

\* one run at a time on the catalogue with a preferred instructor
InitPreference == InitIn({PreferenceCatalogue})

SpecPreference == InitPreference /\ [][Next]_vars

\* a table that holds a row of another semester, alone or beside a row of the
\* request's semester, both on Monday 08:00-09:00 with instructor 1 in room 1
SemesterLedgers ==
    LET row(id, semester) ==
            [id |-> id, course_id |-> 1, instructor_id |-> 1, room_id |-> 1,
             day |-> "Monday", start_time |-> T(8, 0), end_time |-> T(9, 0),
             semester_id |-> semester, by |-> 0]
    IN  { {row(1, semester_id + 1)}, {row(1, semester_id + 1), row(2, semester_id)} }

\* one run at a time on the sole-instructor catalogue, beside a row of another
\* semester
InitSemesters == InitFrom({SoleInstructorCatalogue}, SemesterLedgers)

SpecSemesters == InitSemesters /\ [][Next]_vars

\* the run stands at the call of the slot finder, which returns
AtSlotFinder(r) == pc[r] = "pair" /\ datetime_time = "class"

\* a step of the run anywhere but at the call of the slot finder
StepOutsideSlotFinder(r) == ~AtSlotFinder(r) /\ Step(r)

\* what a step at the call of the slot finder does to the position of the run:
\* on to the check, to the next pair, or into the except branch
SlotFinderReturns(r) ==
    /\ AtSlotFinder(r)
    /\ \E p \in {"check", "pair", "failed"} : pc' = [pc EXCEPT ![r] = p]
    /\ \E i \in 0..Len(Instructors) : ipos' = [ipos EXCEPT ![r] = i]
    /\ \E j \in 0..Len(Rooms) : rpos' = [rpos EXCEPT ![r] = j]

\* the background task runs generate to its end without yielding: a run that
\* has a step to take takes it.  The call of the slot finder always returns
\* (both branches of TrySlot have a successor), so its fairness is stated on
\* the position of the run alone.
Fairness ==
    \A r \in Runs :
        /\ WF_vars(StepOutsideSlotFinder(r))
        /\ WF_<< pc, ipos, rpos >>(SlotFinderReturns(r))

SpecSemestersFair == InitSemesters /\ [][Next]_vars /\ Fairness

\* a table with one manual entry of ninety minutes for instructor 1
NinetyMinuteLedger ==
    { [id |-> 1, course_id |-> 1, instructor_id |-> 1, room_id |-> 1,
       day |-> "Tuesday", start_time |-> T(8, 0), end_time |-> T(9, 30),
       semester_id |-> semester_id, by |-> 0] }

\* one run at a time on the general catalogue, whose instructor 1 may teach two
\* hours a week, beside the entry of ninety minutes
InitNinety == InitFrom({GeneralCatalogue}, {NinetyMinuteLedger})

SpecNinety == InitNinety /\ [][Next]_vars

\* runs started with no regard for one another
\* the two runs that C6 speaks of
ConcurrentRuns == {1, 2}

NextConcurrent == \E r \in ConcurrentRuns : Submit(r) \/ StartRun(r) \/ Step(r)

\* the concurrent runs are explored on the contended catalogue from an empty
\* ledger, for requests that keep the input order of the courses, respect and
\* keep the existing entries and set no time limit
InitConcurrent ==
    /\ Init
    /\ catalog = ContendedCatalogue
    /\ ledger = {}
    /\ request.strategy = "instructors"
    /\ request.respect_existing
    /\ ~request.clear_existing
    /\ request.time_limit_seconds = 0

SpecConcurrent == InitConcurrent /\ [][NextConcurrent]_vars


----------------------------------------------------------------------------
(* The manual endpoints of the timetable router.  Each handler either      *)
(* raises, leaving the table as it is, or commits; the status operators    *)
(* give the HTTP status of a request against a given table, the actions    *)
(* are the requests that commit.  The rows they write carry by = 0.        *)

\* the three-clause comparison of the room and instructor conflict queries: an
\* existing row (row_start, row_end) against the requested times
IntervalClash(row_start, row_end, new_start, new_end) ==
    LET rs == time_to_minutes(row_start)
        re == time_to_minutes(row_end)
        ns == time_to_minutes(new_start)
        ne == time_to_minutes(new_end)
    IN  \/ (rs <= ns /\ re > ns)
        \/ (rs < ne /\ re >= ne)
        \/ (rs >= ns /\ re <= ne)

\* the room kind refused for a course kind by the manual endpoints
KindMismatch(course, room) ==
    \/ (course.type = "Lab" /\ room.type # "Lab")
    \/ (course.type = "Theory" /\ room.type = "Lab")

InstructorIds == {Instructors[k].id : k \in 1..Len(Instructors)}

RoomIds == {Rooms[k].id : k \in 1..Len(Rooms)}

\* the ids of the semester table
SemesterIds == {semester_id, semester_id + 1}

\* POST /timetable/: 422 from the validator of TimetableCreate, 404 for an
\* unknown course, instructor or room, 400 for a room conflict, an instructor
\* conflict or a room of the wrong kind, else 201
create_timetable_entry_status(led, entry) ==
    IF time_to_minutes(entry.end_time) <= time_to_minutes(entry.start_time) THEN 422
    ELSE IF entry.course_id \notin CourseIds \/ entry.instructor_id \notin InstructorIds
                \/ entry.room_id \notin RoomIds \/ entry.semester_id \notin SemesterIds THEN 404
    ELSE IF \E b \in led :
                /\ b.room_id = entry.room_id
                /\ b.day = entry.day
                /\ b.semester_id = entry.semester_id
                /\ IntervalClash(b.start_time, b.end_time, entry.start_time, entry.end_time)
         THEN 400
    ELSE IF \E b \in led :
                /\ b.instructor_id = entry.instructor_id
                /\ b.day = entry.day
                /\ b.semester_id = entry.semester_id
                /\ IntervalClash(b.start_time, b.end_time, entry.start_time, entry.end_time)
         THEN 400
    ELSE IF KindMismatch(CourseById(entry.course_id), RoomById(entry.room_id)) THEN 400
    ELSE 201

create_timetable_entry(entry) ==
    /\ nextEntryId <= MaxEntryId
    /\ create_timetable_entry_status(ledger, entry) = 201
    /\ ledger' = ledger \cup
           { [id |-> nextEntryId, course_id |-> entry.course_id,
              instructor_id |-> entry.instructor_id, room_id |-> entry.room_id,
              day |-> entry.day, start_time |-> entry.start_time,
              end_time |-> entry.end_time, semester_id |-> entry.semester_id, by |-> 0] }
    /\ nextEntryId' = nextEntryId + 1
    /\ UNCHANGED << world, jobs, pc, returned_job_id, job, constraints, entries_created,
                    conflicts, courses, idx, iteration, ipos, rpos, time_slot, violated,
                    start_ledger, cut >>

\* update_data.get(field, db_entry.field): TimetableUpdate is a record that
\* holds the fields that were set
Updated(update_data, field, db_entry) ==
    IF field \in DOMAIN update_data THEN update_data[field] ELSE db_entry[field]

\* the row after setattr of every field that was set
ApplyUpdate(db_entry, update_data) ==
    [field \in DOMAIN db_entry |-> Updated(update_data, field, db_entry)]

\* PUT /timetable/{entry_id}: 404 for an unknown entry; when a time, room or
\* instructor field is set, 400 for a room conflict, an instructor conflict or,
\* if the room or the course is set too, a room of the wrong kind; else 200
update_timetable_entry_status(led, entry_id, update_data) ==
    IF entry_id \notin {b.id : b \in led} THEN 404
    ELSE
        LET db_entry == CHOOSE b \in led : b.id = entry_id
            set == DOMAIN update_data
            new_day == Updated(update_data, "day", db_entry)
            new_start_time == Updated(update_data, "start_time", db_entry)
            new_end_time == Updated(update_data, "end_time", db_entry)
            new_room_id == Updated(update_data, "room_id", db_entry)
            new_instructor_id == Updated(update_data, "instructor_id", db_entry)
            course_id == Updated(update_data, "course_id", db_entry)
        IN  IF set \cap {"day", "start_time", "end_time", "room_id", "instructor_id"} = {}
            THEN 200
            ELSE IF /\ set \cap {"room_id", "day", "start_time", "end_time"} # {}
                    /\ \E b \in led :
                           /\ b.room_id = new_room_id
                           /\ b.day = new_day
                           /\ b.id # entry_id
                           /\ IntervalClash(b.start_time, b.end_time,
                                            new_start_time, new_end_time)
                 THEN 400
            ELSE IF /\ set \cap {"instructor_id", "day", "start_time", "end_time"} # {}
                    /\ \E b \in led :
                           /\ b.instructor_id = new_instructor_id
                           /\ b.day = new_day
                           /\ b.id # entry_id
                           /\ IntervalClash(b.start_time, b.end_time,
                                            new_start_time, new_end_time)
                 THEN 400
            ELSE IF /\ set \cap {"room_id", "course_id"} # {}
                    /\ course_id \in CourseIds
                    /\ new_room_id \in RoomIds
                    /\ KindMismatch(CourseById(course_id), RoomById(new_room_id))
                 THEN 400
            ELSE 200

update_timetable_entry(entry_id, update_data) ==
    /\ update_timetable_entry_status(ledger, entry_id, update_data) = 200
    /\ LET db_entry == CHOOSE b \in ledger : b.id = entry_id
       IN  ledger' = (ledger \ {db_entry}) \cup {ApplyUpdate(db_entry, update_data)}
    /\ UNCHANGED << world, nextEntryId, jobs, pc, returned_job_id, job, constraints,
                    entries_created, conflicts, courses, idx, iteration, ipos, rpos,
                    time_slot, violated, start_ledger, cut >>

\* DELETE /timetable/{entry_id}
delete_timetable_entry(entry_id) ==
    /\ entry_id \in {b.id : b \in ledger}
    /\ ledger' = {b \in ledger : b.id # entry_id}
    /\ UNCHANGED << world, nextEntryId, jobs, pc, returned_job_id, job, constraints,
                    entries_created, conflicts, courses, idx, iteration, ipos, rpos,
                    time_slot, violated, start_ledger, cut >>

\* one Theory course and one Lab course, one lecture hall and one Lab room,
\* one instructor
ManualCatalogue ==
    [courses |->
        << [id |-> 1, type |-> "Theory", expected_students |-> 0],
           [id |-> 2, type |-> "Lab", expected_students |-> 0] >>,
     rooms |->
        << [id |-> 1, type |-> "Lecture Hall", capacity |-> 30],
           [id |-> 2, type |-> "Lab", capacity |-> 25] >>,
     instructors |->
        << [id |-> 1, max_hours_per_week |-> 20] >>,
     preferences |-> {},
     availabilities |-> << >>]

\* the request bodies of the manual create requests that are explored: Monday
\* from 08:00, with an end after the start or not
ManualEntries ==
    [course_id : CourseIds, instructor_id : InstructorIds, room_id : RoomIds,
     day : {"Monday"}, start_time : {T(8, 0)}, end_time : {T(8, 0), T(9, 0)},
     semester_id : {semester_id}]

\* the request bodies of the manual update requests that are explored: one
\* field set
ManualUpdates ==
    {[start_time |-> T(9, 0)], [room_id |-> Rooms[Len(Rooms)].id],
     [course_id |-> Courses[Len(Courses)].id]}

\* the run that shares the table with the manual requests
ManualRuns == {1}

NextManual ==
    \/ \E entry \in ManualEntries : create_timetable_entry(entry)
    \/ \E b \in ledger, update_data \in ManualUpdates : update_timetable_entry(b.id, update_data)
    \/ \E b \in ledger : delete_timetable_entry(b.id)
    \/ \E r \in ManualRuns : SubmitAlone(r) \/ StartRunAlone(r) \/ Step(r)

\* manual requests and one run on the manual catalogue, from an empty table,
\* for requests that keep the input order of the courses, respect and keep the
\* existing entries and set no time limit, with an empty constraint registry
InitManual ==
    /\ InitIn({ManualCatalogue})
    /\ ledger = {}
    /\ request.strategy = "instructors"
    /\ request.respect_existing
    /\ ~request.clear_existing
    /\ request.time_limit_seconds = 0
    /\ DOMAIN constraints_db = {}

SpecManual == InitManual /\ [][NextManual]_vars

----------------------------------------------------------------------------
(* Properties *)

SameSlot(a, b) ==
    /\ a.id # b.id
    /\ a.day = b.day
    /\ check_time_overlap(a.start_time, a.end_time, b.start_time, b.end_time)

RoomClash(a, b) == a.room_id = b.room_id /\ SameSlot(a, b)

InstructorClash(a, b) == a.instructor_id = b.instructor_id /\ SameSlot(a, b)

RoomOverlap(led) == \E a, b \in led : RoomClash(a, b)

InstructorOverlap(led) == \E a, b \in led : InstructorClash(a, b)

\* C1: after a run that ended Completed, run as the only writer on a ledger
\* without room overlap, no two rows of the semester with the same room and day
\* overlap, whatever the strategy, the flags and the constraint registry.
C1_NoRoomOverlap ==
    \A r \in Runs :
        (pc[r] = "done" /\ ~RoomOverlap(start_ledger[r])) => ~RoomOverlap(ledger)

\* a Completed run has put a row in a room that holds another row on that day
C1_Witness ==
    \E r \in Runs :
        /\ pc[r] = "done"
        /\ \E a, b \in ledger :
               a.id # b.id /\ a.by = r /\ a.room_id = b.room_id /\ a.day = b.day

\* C2: after a run that ended Completed, run as the only writer on a ledger
\* without instructor overlap, no two rows of the semester with the same
\* instructor and day overlap, whatever the strategy, the flags and the registry.
C2_NoInstructorOverlap ==
    \A r \in Runs :
        (pc[r] = "done" /\ ~InstructorOverlap(start_ledger[r]))
            => ~InstructorOverlap(ledger)

\* a Completed run has given an instructor a second row on one day
C2_Witness ==
    \E r \in Runs :
        /\ pc[r] = "done"
        /\ \E a, b \in ledger :
               a.id # b.id /\ a.by = r /\ a.instructor_id = b.instructor_id /\ a.day = b.day

C5_RoomKindMatchesCourseKind ==
    \A b \in ledger :
        b.by # 0 =>
            LET course == CourseById(b.course_id)
                room == RoomById(b.room_id)
            IN  /\ course.type = "Lab" => room.type = "Lab"
                /\ course.type = "Theory" => room.type # "Lab"

\* a run has committed a Theory course and a Lab course while RoomTypeMatch
\* was not registered
C5_Witness ==
    /\ "RoomTypeMatch" \notin DOMAIN constraints_db
    /\ \E b \in ledger : b.by # 0 /\ CourseById(b.course_id).type = "Theory"
    /\ \E b \in ledger : b.by # 0 /\ CourseById(b.course_id).type = "Lab"

C8_ClearLeavesOnlyOwnRows ==
    \A r \in Runs :
        (request.clear_existing /\ pc[r] \notin {"idle", "queued", "optimize"})
            => /\ \A b \in ledger : b.by = r
               /\ Cardinality(ledger) = entries_created[r]

\* a run with clear_existing that found rows in the ledger has ended with rows
\* of its own
C8_Witness ==
    \E r \in Runs :
        /\ request.clear_existing
        /\ pc[r] = "done"
        /\ start_ledger[r] # {}
        /\ entries_created[r] > 0

\* C9, as claimed: the job row whose id the request returned is the row the run
\* updates, so it is in a terminal status once the run is over.
C9_ReturnedJobReachesTerminalStatus ==
    \A r \in Runs :
        /\ Active(r) => job[r] = returned_job_id[r]
        /\ Over(r) => jobs[returned_job_id[r]].status \in {"Completed", "Failed"}

\* C10, as claimed: a job row is created in Pending and its status moves only
\* from Pending to Running and from Running to Completed or Failed.
C10_JobStatusMachine ==
    [][/\ \A j \in 1..Len(jobs) :
              \/ jobs'[j].status = jobs[j].status
              \/ jobs[j].status = "Pending" /\ jobs'[j].status = "Running"
              \/ jobs[j].status = "Running" /\ jobs'[j].status \in {"Completed", "Failed"}
       /\ \A j \in (Len(jobs) + 1)..Len(jobs') : jobs'[j].status = "Pending"]_vars

\* C11: when a run ends in an error after k commits, its job row is Failed with
\* the error's message and without result metrics, and the k rows it committed
\* are still in the ledger; the run has raised (pc = "failed"), not returned.
C11_FailedRunKeepsItsRows ==
    \A r \in Runs :
        pc[r] = "failed" =>
            /\ jobs[job[r]].status = "Failed"
            /\ jobs[job[r]].error_message \in {"TypeError", "conflict record rejected"}
            /\ DOMAIN jobs[job[r]].result_metrics = {}
            /\ Cardinality({b \in ledger : b.by = r}) = entries_created[r]

\* a run has ended in an error after it committed a row
C11_Witness ==
    \E r \in Runs :
        /\ pc[r] = "failed"
        /\ entries_created[r] > 0
        /\ \E b \in ledger : b.by = r

\* C12, as claimed: the response polled for a Completed job carries a
\* statistics snapshot and one conflict record per conflict of the run; the
\* one polled for a Failed job goes with an error message and has no statistics.
C12_PolledResultCarriesConflictList ==
    \A r \in Runs :
        Over(r) =>
            LET polled == get_timetable_generation_status(job[r])
            IN  /\ "raised" \notin DOMAIN polled
                /\ jobs[job[r]].status = "Completed" =>
                       /\ DOMAIN polled.statistics # {}
                       /\ Len(polled.conflicts_detected) = Len(conflicts[r])
                /\ jobs[job[r]].status = "Failed" =>
                       /\ jobs[job[r]].error_message # ""
                       /\ DOMAIN polled.statistics = {}

\* C13, as claimed: recording a conflict for a course never ends the run, so no
\* run ends Failed on a conflict record.
C13_ConflictRecordNeverEndsRun ==
    \A r \in Runs :
        pc[r] = "failed" => jobs[job[r]].error_message # "conflict record rejected"

\* C14, as claimed: a run requested with time_limit_seconds = 0 takes up no
\* course, commits nothing and records no conflict.
C14_ZeroTimeLimitProcessesNothing ==
    request.time_limit_seconds = 0 =>
        \A r \in Runs :
            /\ pc[r] \notin {"pair", "check", "commit"}
            /\ iteration[r] = 0
            /\ entries_created[r] = 0
            /\ conflicts[r] = << >>

\* the ids of the courses the loop of run r has reached so far
Processed(r) ==
    LET last == IF pc[r] \in {"pair", "check", "commit"} THEN idx[r] ELSE idx[r] - 1
    IN  {courses[r][k].id : k \in 1..Min(last, Len(courses[r]))}

\* C15: a run takes up at most max_iterations courses (the value handed to the
\* generator), skipped courses included; rows and conflict records of the run
\* name courses it has reached, so the courses after the cut-off get neither,
\* and entries_created never exceeds max_iterations.
C15_AtMostMaxIterationsCourses ==
    \A r \in Runs :
        /\ entries_created[r] <= max_iterations
        /\ pc[r] \in {"loop", "pair", "check", "commit", "stats"} =>
               /\ iteration[r] <= max_iterations
               /\ Cardinality(Processed(r)) = iteration[r]
               /\ entries_created[r] <= iteration[r]
               /\ \A b \in ledger : b.by = r => b.course_id \in Processed(r)
               /\ \A k \in 1..Len(conflicts[r]) : conflicts[r][k].entity_id \in Processed(r)

\* the iteration cap has cut a run short after it committed a row, with a
\* course left unreached
C15_Witness ==
    \E r \in Runs :
        /\ pc[r] = "stats"
        /\ cut[r]
        /\ iteration[r] = max_iterations
        /\ entries_created[r] = max_iterations
        /\ idx[r] <= Len(courses[r])

\* C16, as claimed: with two Theory courses, one lecture hall, one instructor
\* with max_hours_per_week = 1 and an empty ledger, a run that the budget does
\* not cut and for which InstructorMaxHours is not registered as soft ends with
\* one row committed and one conflict record, which names the other course and
\* has kind InstructorMaxHours or NoSuitableTimeSlot.
C16_OneBookingOneConflict ==
    \A r \in Runs :
        (/\ catalog = SoleInstructorCatalogue
         /\ start_ledger[r] = {}
         /\ Over(r)
         /\ ~cut[r]
         /\ ~("InstructorMaxHours" \in DOMAIN constraints[r]
                /\ ~constraints[r]["InstructorMaxHours"]))
            => /\ entries_created[r] = 1
               /\ Cardinality({b \in ledger : b.by = r}) = 1
               /\ Len(conflicts[r]) = 1
               /\ conflicts[r][1].conflict_type \in {"InstructorMaxHours", "NoSuitableTimeSlot"}
               /\ \A b \in ledger : b.by = r => conflicts[r][1].entity_id # b.course_id

\* C17, as claimed: with one Lab course, one Lab room that holds it, one
\* instructor available on Monday 08:00-17:00 with 20 hours a week and an empty
\* ledger, a run that the budget does not cut ends Completed with one row of
\* 120 minutes in the ledger, entries_created = 1 and no conflict record.
C17_SingleLabCourseBooked ==
    \A r \in Runs :
        (catalog = SingleLabCatalogue /\ start_ledger[r] = {} /\ Over(r) /\ ~cut[r])
            => /\ pc[r] = "done"
               /\ entries_created[r] = 1
               /\ conflicts[r] = << >>
               /\ Cardinality(ledger) = 1
               /\ \A b \in ledger :
                      time_to_minutes(b.end_time) - time_to_minutes(b.start_time) = 120

\* C18, as claimed: when the course taken up has no room of its kind, the step
\* appends one NoSuitableRoom record for it, commits nothing, goes on with the
\* next course, and does so whether or not the course has an instructor.
C18_NoSuitableRoomRecorded ==
    [][\A r \in Runs :
          (/\ pc[r] = "loop"
           /\ idx[r] <= Len(courses[r])
           /\ CurRooms(r) = << >>
           /\ ~SkipTaken(r)
           /\ pc'[r] # "stats"
           /\ (pc'[r] # pc[r] \/ idx'[r] # idx[r]))
          => /\ conflicts'[r] =
                    Append(conflicts[r], Conflict("NoSuitableRoom", CurCourse(r), NoSlot))
             /\ ledger' = ledger
             /\ pc'[r] = "loop"
             /\ idx'[r] = idx[r] + 1]_vars

\* C19: when the loop reaches a course that has a row in the semester, with
\* respect_existing and without clear_existing, the course is not taken up and
\* the step leaves the ledger and the conflict records as they were; the loop
\* passes over a course in this way only then, so never with clear_existing.
C19_SkipOnlyWhenRespectedAndKept ==
    [][\A r \in Runs :
          (pc[r] = "loop" /\ idx[r] <= Len(courses[r])) =>
              LET respected == /\ request.respect_existing
                               /\ ~request.clear_existing
                               /\ HasEntry(ledger, CurCourse(r))
                  skipped == pc'[r] = "loop" /\ idx'[r] = idx[r] + 1
                  taken_up == pc'[r] \in {"pair", "check", "commit", "failed"}
              IN  /\ respected => ~taken_up
                  /\ skipped => (respected /\ ledger' = ledger /\ conflicts' = conflicts)
                  /\ request.clear_existing => ~skipped]_vars

\* the loop of a run has passed over a course that had a row when the run
\* started, and the run has added no row for it
C19_Witness ==
    \E r \in Runs :
        /\ request.respect_existing
        /\ ~request.clear_existing
        /\ pc[r] = "loop"
        /\ idx[r] > 1
        /\ iteration[r] = idx[r] - 1
        /\ HasEntry(start_ledger[r], courses[r][idx[r] - 1])
        /\ \A b \in ledger : b.by = r => b.course_id # courses[r][idx[r] - 1].id

\* the availability rows of an instructor for a day that count (is_available)
AvailableRows(instructor_id, day) ==
    {a \in {InstructorAvailabilities[k] : k \in 1..Len(InstructorAvailabilities)} :
        a.instructor_id = instructor_id /\ a.day = day /\ a.is_available}

\* C20: the slot the slot finder returns for (course, instructor, room) lies in
\* the default teaching window of its day and in an availability window of the
\* instructor for that day (the default window when the instructor has none),
\* lasts 120 minutes for a Lab course and 60 otherwise, and overlaps no row of
\* the instructor and no row of the room on that day.
C20_ReturnedSlotIsFeasible ==
    \A r \in Runs :
        pc[r] = "check" =>
            LET slot == time_slot[r]
                course == CurCourse(r)
                instructor == CurInstructors(r)[ipos[r]]
                room == CurRooms(r)[rpos[r]]
                from == time_to_minutes(slot.start_time)
                to == time_to_minutes(slot.end_time)
                Minutes(hm) == 60 * hm[1] + hm[2]
                rows == AvailableRows(instructor.id, slot.day)
            IN  /\ slot.day \in DOMAIN DEFAULT_TEACHING_HOURS
                /\ Minutes(DEFAULT_TEACHING_HOURS[slot.day].start) <= from
                /\ to <= Minutes(DEFAULT_TEACHING_HOURS[slot.day].end)
                /\ rows # {} =>
                       \E a \in rows : /\ time_to_minutes(a.start_time) <= from
                                       /\ to <= time_to_minutes(a.end_time)
                /\ to - from = (IF course.type = "Lab" THEN 120 ELSE 60)
                /\ \A b \in ledger :
                       (b.day = slot.day
                            /\ (b.instructor_id = instructor.id \/ b.room_id = room.id))
                       => (to <= time_to_minutes(b.start_time)
                               \/ time_to_minutes(b.end_time) <= from)

\* a slot has been returned on a day for which the instructor has an
\* availability row and on which the instructor and the room hold a row
C20_Witness ==
    \E r \in Runs :
        /\ pc[r] = "check"
        /\ AvailableRows(CurInstructors(r)[ipos[r]].id, time_slot[r].day) # {}
        /\ \E b \in ledger :
               /\ b.day = time_slot[r].day
               /\ b.instructor_id = CurInstructors(r)[ipos[r]].id
               /\ b.room_id = CurRooms(r)[rpos[r]].id

\* the teaching days: the days whose default teaching window is not 00:00-00:00
TeachingDays ==
    {d \in DOMAIN DEFAULT_TEACHING_HOURS : DEFAULT_TEACHING_HOURS[d].start # <<0, 0>>}

\* the windows of an instructor on a day, in minutes, each clipped to the
\* default teaching window of the day: the is_available rows of the day, or the
\* default window when there is none
ClippedWindows(instructor_id, day) ==
    LET Minutes(hm) == 60 * hm[1] + hm[2]
        from == Minutes(DEFAULT_TEACHING_HOURS[day].start)
        to == Minutes(DEFAULT_TEACHING_HOURS[day].end)
        rows == AvailableRows(instructor_id, day)
    IN  IF rows = {} THEN {<<from, to>>}
        ELSE {<<Max(time_to_minutes(a.start_time), from),
                Min(time_to_minutes(a.end_time), to)>> : a \in rows}

\* the candidate starts of a day: clipped window start + k * 30 minutes, with
\* the whole duration inside the clipped window
Candidates(course, instructor_id, day) ==
    LET length == IF course.type = "Lab" THEN 120 ELSE 60
    IN  UNION { {w[1] + 30 * k : k \in {j \in 0..48 : w[1] + 30 * j + length <= w[2]}} :
                w \in ClippedWindows(instructor_id, day) }

\* the candidate starts that overlap no row of the instructor and no row of the
\* room on that day
FeasibleCandidates(led, course, instructor_id, room_id, day) ==
    LET length == IF course.type = "Lab" THEN 120 ELSE 60
    IN  {s \in Candidates(course, instructor_id, day) :
            \A b \in led :
                (b.day = day /\ (b.instructor_id = instructor_id \/ b.room_id = room_id))
                => (s + length <= time_to_minutes(b.start_time)
                        \/ time_to_minutes(b.end_time) <= s)}

\* C21: for the pair a run is about to try, the slot finder returns none
\* exactly when on every teaching day every candidate start (clipped window
\* start + k * 30 minutes, fitting in the clipped window) overlaps a row of the
\* instructor or of the room; so whether a slot is found is the same for every
\* day order.
C21_NoneOnlyWhenEveryCandidateTaken ==
    \A r \in Runs :
        (pc[r] = "pair" /\ datetime_time = "class") =>
            LET course == CurCourse(r)
                instructor == CurInstructors(r)[ipos[r]]
                room == CurRooms(r)[rpos[r]]
            IN  \A days \in DayOrders :
                    (_find_time_slot(ledger, course, instructor, room, days) = NoSlot)
                    <=> (\A d \in TeachingDays :
                            FeasibleCandidates(ledger, course, instructor.id, room.id, d) = {})

\* a pair is about to be tried for which the finder returns none under every
\* day order although a teaching day has candidate starts: all of them are taken
C21_Witness ==
    \E r \in Runs :
        /\ pc[r] = "pair"
        /\ datetime_time = "class"
        /\ \A days \in DayOrders :
               _find_time_slot(ledger, CurCourse(r), CurInstructors(r)[ipos[r]],
                               CurRooms(r)[rpos[r]], days) = NoSlot
        /\ \E d \in TeachingDays :
               Candidates(CurCourse(r), CurInstructors(r)[ipos[r]].id, d) # {}

C23_CommittedRowsInTeachingHours ==
    \A b \in ledger :
        b.by # 0 =>
            /\ b.day # "Sunday"
            /\ b.day \in {"Monday", "Tuesday", "Wednesday", "Thursday", "Friday", "Saturday"}
            /\ 8 * 60 <= time_to_minutes(b.start_time)
            /\ time_to_minutes(b.end_time) <= (IF b.day = "Saturday" THEN 13 * 60 ELSE 17 * 60)

\* a run has committed a row for an instructor who has an explicit Sunday
\* availability window
C23_Witness ==
    \E b \in ledger :
        /\ b.by # 0
        /\ AvailableRows(b.instructor_id, "Sunday") # {}

\* C24: every row committed by a run has start < end, with end - start equal
\* to 120 minutes for a Lab course and to 60 minutes for a Theory course.
C24_CommittedRowsHaveCourseDuration ==
    \A b \in ledger :
        b.by # 0 =>
            /\ time_to_minutes(b.start_time) < time_to_minutes(b.end_time)
            /\ time_to_minutes(b.end_time) - time_to_minutes(b.start_time)
                   = (IF CourseById(b.course_id).type = "Lab" THEN 120 ELSE 60)

\* runs have committed a row for a Lab course and a row for a Theory course
C24_Witness ==
    /\ \E b \in ledger : b.by # 0 /\ CourseById(b.course_id).type = "Lab"
    /\ \E b \in ledger : b.by # 0 /\ CourseById(b.course_id).type = "Theory"

\* the preference score of an instructor for a course, 3 when none is recorded
Score(instructor_id, course) ==
    LET prefs == {p \in InstructorPreferences :
                      p.instructor_id = instructor_id /\ p.course_id = course.id}
    IN  IF prefs = {} THEN 3 ELSE (CHOOSE p \in prefs : TRUE).preference_level

\* the capacity a room has beyond the expected enrollment of a course
Surplus(room, course) == room.capacity - course.expected_students

\* the pair gives no row for run r in the current ledger: under every day order
\* the slot finder returns none or the slot it returns is reported with a
\* violation of a kind registered as hard
PairFails(r, course, instructor, room) ==
    \A days \in DayOrders :
        LET slot == _find_time_slot(ledger, course, instructor, room, days)
        IN  \/ slot = NoSlot
            \/ FirstHard(constraints[r],
                         _check_constraints(ledger, course, instructor, room, slot)) # ""

\* C26: when a run is about to commit a row, the (instructor, room) pair of
\* the row is the first pair, instructors by descending preference score (3
\* when missing) and rooms of an instructor by ascending surplus capacity, for
\* which the slot finder returned a slot without a hard violation: every pair
\* before it gives no row, and so does every pair of an instructor with a
\* strictly higher score.
C26_CommitUsesFirstWorkingPair ==
    \A r \in Runs :
        pc[r] = "commit" =>
            LET course == CurCourse(r)
                instructors == CurInstructors(r)
                rooms == CurRooms(r)
                instructor == instructors[ipos[r]]
                room == rooms[rpos[r]]
            IN  /\ \A k, l \in 1..Len(instructors) :
                       k < l => Score(instructors[k].id, course) >= Score(instructors[l].id, course)
                /\ \A k, l \in 1..Len(rooms) :
                       k < l => Surplus(rooms[k], course) <= Surplus(rooms[l], course)
                /\ \A k \in 1..Len(Rooms) :
                       Rooms[k] \in {rooms[l] : l \in 1..Len(rooms)}
                       <=> /\ course.type = "Lab" <=> Rooms[k].type = "Lab"
                           /\ Surplus(Rooms[k], course) >= 0
                /\ {instructors[k] : k \in 1..Len(instructors)}
                       = {Instructors[k] : k \in 1..Len(Instructors)}
                /\ time_slot[r] # NoSlot
                /\ FirstHard(constraints[r],
                             _check_constraints(ledger, course, instructor, room,
                                                time_slot[r])) = ""
                /\ \A k \in 1..Len(instructors), l \in 1..Len(rooms) :
                       (k < ipos[r] \/ (k = ipos[r] /\ l < rpos[r]))
                       => PairFails(r, course, instructors[k], rooms[l])
                /\ \A k \in 1..Len(Instructors), l \in 1..Len(rooms) :
                       Score(Instructors[k].id, course) > Score(instructor.id, course)
                       => PairFails(r, course, Instructors[k], rooms[l])

\* a run is about to commit a row in the hall with the least surplus, stored
\* second in the room table, for an instructor with a strictly lower score than
\* another one, whose pairs were reported with hard violations before
C26_Witness ==
    \E r \in Runs :
        /\ pc[r] = "commit"
        /\ rpos[r] = 1
        /\ ipos[r] > 1
        /\ Len(conflicts[r]) >= 2
        /\ CurRooms(r)[1].id # Rooms[1].id
        /\ \E k \in 1..Len(Instructors) :
               Score(Instructors[k].id, CurCourse(r))
                   > Score(CurInstructors(r)[ipos[r]].id, CurCourse(r))

\* C27: a step of _create_timetable_entry that finds a violated kind registered
\* as hard appends exactly one conflict record, which names such a kind and the
\* course, adds no row, and leaves the search of the course on its next
\* (instructor, room) pair when there is one; the step that commits a row ends
\* the search of the course; and a run never holds two rows for one course.
C27_HardViolationKeepsSearching ==
    [][\A r \in Runs :
        /\ (pc[r] = "check" /\ pc'[r] # "check") =>
               LET found == _check_constraints(ledger, CurCourse(r), CurInstructors(r)[ipos[r]],
                                               CurRooms(r)[rpos[r]], time_slot[r])
                   hard == {found[k] : k \in {j \in 1..Len(found) :
                                found[j] \in DOMAIN constraints[r]
                                    /\ constraints[r][found[j]]}}
                   more_rooms == rpos[r] < Len(CurRooms(r))
                   more_instructors == ipos[r] < Len(CurInstructors(r))
               IN  IF hard # {}
                   THEN /\ Len(conflicts'[r]) = Len(conflicts[r]) + 1
                        /\ SubSeq(conflicts'[r], 1, Len(conflicts[r])) = conflicts[r]
                        /\ conflicts'[r][Len(conflicts'[r])].conflict_type \in hard
                        /\ conflicts'[r][Len(conflicts'[r])].entity_id = CurCourse(r).id
                        /\ ledger' = ledger
                        /\ more_rooms =>
                               /\ pc'[r] = "pair" /\ idx'[r] = idx[r]
                               /\ ipos'[r] = ipos[r] /\ rpos'[r] = rpos[r] + 1
                        /\ (~more_rooms /\ more_instructors) =>
                               /\ pc'[r] = "pair" /\ idx'[r] = idx[r]
                               /\ ipos'[r] = ipos[r] + 1 /\ rpos'[r] = 1
                   ELSE /\ conflicts'[r] = conflicts[r]
                        /\ pc'[r] = "commit"
        /\ (pc[r] = "commit" /\ pc'[r] # "commit") =>
               /\ pc'[r] = "loop"
               /\ idx'[r] = idx[r] + 1
               /\ conflicts'[r] = conflicts[r]
               /\ \E b \in ledger' \ ledger :
                      /\ ledger' = ledger \cup {b}
                      /\ b.by = r
                      /\ b.course_id = CurCourse(r).id
        /\ \A a, b \in ledger' :
               (a.by = r /\ b.by = r /\ a.course_id = b.course_id) => a = b
      ]_vars

\* a run has committed a row for a course after a hard violation was recorded
\* for that course on an earlier pair
C27_Witness ==
    \E r \in Runs :
        \E b \in ledger :
            /\ b.by = r
            /\ \E k \in 1..Len(conflicts[r]) :
                   /\ conflicts[r][k].entity_id = b.course_id
                   /\ conflicts[r][k].conflict_type = "InstructorMaxHours"

OwnRows(led, r) == {b \in led : b.by = r}

\* every row that run r committed is returned by the room-booking and the
\* instructor-booking reads of its room, instructor and day, and is counted in
\* the minutes of its instructor
OwnRowsAreRead(led, r) ==
    \A b \in OwnRows(led, r) :
        /\ [start_time |-> b.start_time, end_time |-> b.end_time]
               \in _get_room_bookings(led, b.room_id, b.day)
        /\ [start_time |-> b.start_time, end_time |-> b.end_time]
               \in _get_instructor_bookings(led, b.instructor_id, b.day)
        /\ InstructorMinutes(led, b.instructor_id)
               >= SumMinutes({a \in OwnRows(led, r) : a.instructor_id = b.instructor_id})

InputPosition(course) == CHOOSE k \in 1..Len(Courses) : Courses[k] = course

\* C30: the list a run processes holds every course once; under strategy
\* rooms no Theory course stands before a Lab course and courses of the same
\* kind stand in their input order; under strategy students the expected
\* enrollments (0 when unset) never increase along the list.
C30_StrategyOrder ==
    \A r \in Runs :
        pc[r] \in {"loop", "pair", "check", "commit", "stats"} =>
            LET list == courses[r]
            IN  /\ Len(list) = Len(Courses)
                /\ {list[k] : k \in 1..Len(list)} = {Courses[k] : k \in 1..Len(Courses)}
                /\ request.strategy = "rooms" =>
                       \A k, l \in 1..Len(list) :
                           k < l =>
                               /\ ~(list[k].type # "Lab" /\ list[l].type = "Lab")
                               /\ (list[k].type = "Lab" <=> list[l].type = "Lab")
                                      => InputPosition(list[k]) < InputPosition(list[l])
                /\ request.strategy = "students" =>
                       \A k, l \in 1..Len(list) :
                           k < l => list[k].expected_students >= list[l].expected_students

\* under strategy rooms a run has finished a Lab course that stands after a
\* Theory course in the table and is now at that Theory course
C30_Witness ==
    \E r \in Runs :
        /\ request.strategy = "rooms"
        /\ pc[r] \in {"pair", "check", "commit"}
        /\ idx[r] = 2
        /\ courses[r][1].type = "Lab"
        /\ courses[r][2].type = "Theory"
        /\ InputPosition(courses[r][2]) < InputPosition(courses[r][1])

\* C25, as claimed: every row of the table has start < end, whatever manual
\* create, update and delete requests and generation steps have been made from
\* the empty table.
C25_StartBeforeEnd ==
    \A b \in ledger : time_to_minutes(b.start_time) < time_to_minutes(b.end_time)

\* every arrangement of the elements of a sequence
PermutationsOf(seq) ==
    {p \in [1..Len(seq) -> {seq[k] : k \in 1..Len(seq)}] :
        \A k \in 1..Len(seq) : \E l \in 1..Len(seq) : p[l] = seq[k]}

\* C31, as claimed: when a run is about to order its courses under strategy
\* instructors, minimal_changes or balanced, the orders it can take are all
\* the permutations of the course list, and they are the same for the three
\* strategies.
C31_ThreeStrategiesShuffle ==
    \A r \in Runs :
        (pc[r] = "optimize"
            /\ request.strategy \in {"instructors", "minimal_changes", "balanced"}) =>
            /\ CourseOrders(request.strategy) = PermutationsOf(Courses)
            /\ CourseOrders("instructors") = CourseOrders("balanced")
            /\ CourseOrders("minimal_changes") = CourseOrders("balanced")

\* the rows of the other semesters
OtherSemesters(led) == {b \in led : b.semester_id # semester_id}

\* C32: with clear_existing = false the table a run started from stays part
\* of the table; the step of the slot finder changes neither the table nor
\* entries_created nor the conflict list; the step of the constraint evaluator
\* changes neither the table nor entries_created, and the conflict list only by
\* the one record _create_timetable_entry appends for a hard kind; and no step
\* adds, deletes or changes a row of another semester, whatever clear_existing.
C32_RunLeavesOtherRowsAlone ==
    [][\A r \in Runs :
        /\ (~request.clear_existing /\ pc'[r] \notin {"idle", "queued"}) =>
               start_ledger'[r] \subseteq ledger'
        /\ pc[r] = "pair" =>
               /\ ledger' = ledger
               /\ entries_created' = entries_created
               /\ conflicts' = conflicts
        /\ pc[r] = "check" =>
               /\ ledger' = ledger
               /\ entries_created' = entries_created
               /\ \/ conflicts' = conflicts
                  \/ /\ Len(conflicts'[r]) = Len(conflicts[r]) + 1
                     /\ SubSeq(conflicts'[r], 1, Len(conflicts[r])) = conflicts[r]
                     /\ conflicts'[r][Len(conflicts'[r])].time_slot = time_slot[r]
        /\ OtherSemesters(ledger') = OtherSemesters(ledger)
      ]_vars

\* a run with clear_existing has deleted the row of its semester it started
\* from and committed a row of its own at the time of the row of the other
\* semester, which is still in the table
C32_Witness ==
    \E r \in Runs :
        /\ request.clear_existing
        /\ \E b \in start_ledger[r] : b.semester_id = semester_id /\ b \notin ledger
        /\ \E b \in ledger, o \in OtherSemesters(ledger) :
               /\ b.by = r
               /\ o.by = 0
               /\ b.day = o.day /\ b.start_time = o.start_time /\ b.room_id = o.room_id

\* C33: every run that has started comes to its end: from the moment the
\* generator is constructed (its job row Running) the run eventually is over
\* and its job row is Completed or Failed, whether or not the iteration cap or
\* the time limit is ever reached.
C33_RunTerminates ==
    \A r \in Runs :
        (pc[r] = "optimize" /\ jobs[job[r]].status = "Running")
            ~> (Over(r) /\ jobs[job[r]].status \in {"Completed", "Failed"})

\* a run under the default budgets went through every course, skipping one and
\* searching another, and completed its job without the budget test ever
\* ending the loop
C33_Witness ==
    \E r \in Runs :
        /\ request.max_iterations = 0
        /\ request.time_limit_seconds = 0
        /\ pc[r] = "done"
        /\ ~cut[r]
        /\ jobs[job[r]].status = "Completed"
        /\ \E b \in start_ledger[r] : b.semester_id = semester_id
        /\ \E b \in ledger : b.by = r

\* the windows the instructor recorded with is_available = false for the day
UnavailableRows(instructor_id, day) ==
    {a \in {InstructorAvailabilities[k] : k \in 1..Len(InstructorAvailabilities)} :
        a.instructor_id = instructor_id /\ a.day = day /\ ~a.is_available}

RowsOfCourse(led, course_id) ==
    {b \in led : b.course_id = course_id /\ b.semester_id = semester_id}

AtMostOneRowPerCourse(led) ==
    \A c \in CourseIds : Cardinality(RowsOfCourse(led, c)) <= 1

\* the run is over and no later run has started
LatestOver(r) == Over(r) /\ \A q \in Runs : q > r => pc[q] \in {"idle", "queued"}

Reported(r) ==
    LET found == _check_constraints(ledger, CurCourse(r), CurInstructors(r)[ipos[r]],
                                    CurRooms(r)[rpos[r]], time_slot[r])
    IN  {found[k] : k \in 1..Len(found)}

\* C37: for a slot the slot finder returned and a room of the suitable-room
\* list the constraint evaluator reports none of NoRoomConflict,
\* NoInstructorConflict, RoomTypeMatch, RoomCapacity; and every conflict record
\* of a run is of kind NoSuitableRoom, NoSuitableInstructor, NoSuitableTimeSlot
\* or InstructorMaxHours.
C37_FinderSlotPassesRoomAndClashChecks ==
    \A r \in Runs :
        /\ pc[r] = "check" =>
               Reported(r) \cap {"NoRoomConflict", "NoInstructorConflict",
                                 "RoomTypeMatch", "RoomCapacity"} = {}
        /\ \A k \in 1..Len(conflicts[r]) :
               conflicts[r][k].conflict_type \in
                   {"NoSuitableRoom", "NoSuitableInstructor", "NoSuitableTimeSlot",
                    "InstructorMaxHours"}

\* a run has recorded a conflict and stands at the check of a slot the finder
\* returned on a day that has a row in the table, for a course with a stated
\* number of students and a room drawn from rooms of both kinds
C37_Witness ==
    \E r \in Runs :
        /\ pc[r] = "check"
        /\ conflicts[r] # << >>
        /\ CurCourse(r).expected_students # 0
        /\ Len(CurRooms(r)) < Len(Rooms)
        /\ \E b \in ledger : b.day = time_slot[r].day

\* the times a manual entry may start or end at in the requests examined
ManualTimes == {T(8, 0), T(8, 30), T(9, 0), T(9, 30)}

\* request bodies of POST /timetable/ for Monday
ManualBodies ==
    [course_id : CourseIds, instructor_id : InstructorIds, room_id : RoomIds,
     day : {"Monday"}, start_time : ManualTimes, end_time : ManualTimes,
     semester_id : SemesterIds]

\* the entry overlaps, as check_time_overlap has it, a row of its semester and
\* day with the same room or the same instructor
OverlapsRow(led, entry) ==
    \E b \in led :
        /\ b.semester_id = entry.semester_id
        /\ b.day = entry.day
        /\ (b.room_id = entry.room_id \/ b.instructor_id = entry.instructor_id)
        /\ check_time_overlap(b.start_time, b.end_time, entry.start_time, entry.end_time)

\* C38: for a request body with start < end whose room is of the kind of its
\* course, create_timetable_entry answers 400 exactly when the entry overlaps,
\* as check_time_overlap has it, a row of the same semester and day with the
\* same room or the same instructor, and answers 201 otherwise; the three-clause
\* comparison agrees with check_time_overlap on every pair of intervals with
\* start < end.
C38_CreateRejectsExactlyOverlaps ==
    /\ \A entry \in ManualBodies :
           (/\ time_to_minutes(entry.start_time) < time_to_minutes(entry.end_time)
            /\ ~KindMismatch(CourseById(entry.course_id), RoomById(entry.room_id))) =>
               /\ create_timetable_entry_status(ledger, entry) = 400
                      <=> OverlapsRow(ledger, entry)
               /\ create_timetable_entry_status(ledger, entry) \in {400, 201}
    /\ \A s1, e1, s2, e2 \in ManualTimes :
           (time_to_minutes(s1) < time_to_minutes(e1)
                /\ time_to_minutes(s2) < time_to_minutes(e2)) =>
               (IntervalClash(s1, e1, s2, e2) <=> check_time_overlap(s1, e1, s2, e2))

\* C39: every accepted update leaves the row with a room of the kind of its
\* course (a Lab course in a Lab room, a Theory course in a room that is not a
\* Lab), also when the body sets course_id alone.
C39_UpdateKeepsRoomKind ==
    [][\A b \in ledger, update_data \in ManualUpdates :
           update_timetable_entry(b.id, update_data) =>
               LET row == ApplyUpdate(b, update_data)
               IN  /\ row \in ledger'
                   /\ ~KindMismatch(CourseById(row.course_id), RoomById(row.room_id))
      ]_vars

====
